---- MODULE Spec2Model ----
(***************************************************************************)
(* Full sync of the Cases entity (src/main.py): run_etl() calls extract()  *)
(* and then load(df, 'Cases'), which replaces the Cases_staging table and  *)
(* reconciles the Cases table with one MERGE and one DELETE statement      *)
(* inside a transaction.                                                   *)
(*                                                                         *)
(* Tables are bags (multisets) of rows: neither the staging table created  *)
(* by DataFrame.to_sql nor the statements of load() put a key constraint   *)
(* on NationalId.  A nullable column holds NULL (the empty tuple) or a     *)
(* one-element tuple <<v>>.                                                *)
(***************************************************************************)
EXTENDS Naturals, Sequences, FiniteSets, Bags

VARIABLES
    source,   \* source[r]: the rows of the source table Cases read by run r's query
    df,       \* df[r]: the DataFrame run r holds (a bag of records)
    staging,  \* the table Cases_staging of the target database
    target,   \* the committed contents of the table Cases of the target database
    trans,    \* trans[r]: the transaction of run r's connection
    pc,       \* pc[r]: where run r's caller is (the states of run_etl)
    step,     \* step[r]: where run r is inside load()
    err,      \* err[r]: the phase of load() whose exception run r is propagating
    before,   \* before[r]: the contents of Cases when run r's transaction began
    lastDf    \* the records of the latest committed sync

vars == <<source, df, staging, target, trans, pc, step, err, before, lastDf>>

\* The processes that may run the script (or import it and call load).
Runs == {"A", "B"}

\* Most rows one extraction returns.
MaxRows == 2

\* Most rows the model lets the Cases table hold.
MaxTarget == 3

-----------------------------------------------------------------------------
(* Values and rows *)

NULL == << >>

Some(v) == <<v>>

\* N'أنثى' and N'ذكر' of the query, transliterated.
FemaleLabel == "untha"

MaleLabel == "dhakar"

\* A row of the source table Cases, with the columns the query reads.
SrcRow(name, phone, caseNumber, city, gender, family, age) ==
    [Name |-> name, PhoneNumber1 |-> phone, CaseNumber |-> caseNumber,
     City |-> city, Gender |-> gender, FamilyNumber |-> family, Age |-> age]

\* The source rows the extractions are drawn from: case number 111 in two
\* versions, case number 222, and a row without case number; gender codes
\* 20, 10, an unmapped code and NULL.
SourceRows ==
    { SrcRow("Amal", "0100", Some("111"), "Cairo", Some(20), 1, 30),
      SrcRow("Omar", "0200", Some("111"), "Giza", Some(10), 2, 41),
      SrcRow("Amal", "0100", Some("222"), "Cairo", Some(30), 1, 30),
      SrcRow("Omar", "0200", NULL, "Giza", NULL, 2, 41) }

\* The bag of the elements of a sequence.
BagOfSeq(s) ==
    [x \in {s[i] : i \in DOMAIN s} |-> Cardinality({i \in DOMAIN s : s[i] = x})]

\* The contents the source table may have when a run queries it.
SourceTables ==
    {BagOfSeq(s) : s \in UNION {[1..n -> SourceRows] : n \in 0..MaxRows}}

\* The CASE expression with its two labels exchanged.
GenderLabelSwapped(code) ==
    IF code = Some(20) THEN Some(MaleLabel)
    ELSE IF code = Some(10) THEN Some(FemaleLabel)
    ELSE NULL

\* CASE WHEN Cases.Gender = 20 THEN .. WHEN Cases.Gender = 10 THEN .. END
GenderLabel(code) ==
    IF code = Some(20) THEN Some(FemaleLabel)
    ELSE IF code = Some(10) THEN Some(MaleLabel)
    ELSE NULL

\* The projection of the query: one record per source row.
Project(row) ==
    [Name |-> row.Name, PhoneNumber1 |-> row.PhoneNumber1,
     NationalId |-> row.CaseNumber, City |-> row.City,
     Gender |-> GenderLabel(row.Gender),
     FamilyNumber |-> row.FamilyNumber, Age |-> row.Age]

RECURSIVE SumCopies(_, _)
\* The number of copies in bag B of the rows of set S.
SumCopies(S, B) ==
    IF S = {} THEN 0
    ELSE LET x == CHOOSE y \in S : TRUE
         IN  CopiesIn(x, B) + SumCopies(S \ {x}, B)

\* SELECT ... FROM Cases: the records of every row of the table.
Query(table) ==
    [rec \in {Project(row) : row \in BagToSet(table)} |->
        SumCopies({row \in BagToSet(table) : Project(row) = rec}, table)]

\* DataFrame.empty
IsEmpty(frame) == BagToSet(frame) = {}

-----------------------------------------------------------------------------
(* The two statements of load() *)

\* a = b of SQL is true only of two values that are not NULL.
SqlEq(a, b) == a # NULL /\ b # NULL /\ a = b

\* NOT IN read as plain set membership, a NULL being a value like any other.
SqlNotInTwoValued(x, S) == x \notin S

\* x NOT IN (SELECT ...) of SQL is true when the subquery is empty, or when
\* x is not NULL and differs from every value of the subquery, none NULL.
SqlNotIn(x, S) ==
    \/ S = {}
    \/ x # NULL /\ \A s \in S : s # NULL /\ s # x

\* The staged rows that ON target.NationalId = source.NationalId joins to t.
Matches(t, stg) ==
    {s \in BagToSet(stg) : SqlEq(t.NationalId, s.NationalId)}

\* MERGE fails when it would update one target row from two staged rows.
MergeError(tgt, stg) ==
    \E t \in BagToSet(tgt) : SumCopies(Matches(t, stg), stg) > 1

\* WHEN MATCHED THEN UPDATE SET ...: the six non-key columns.
UpdateRow(t, s) ==
    [t EXCEPT !.Name = s.Name, !.PhoneNumber1 = s.PhoneNumber1,
              !.City = s.City, !.Gender = s.Gender,
              !.FamilyNumber = s.FamilyNumber, !.Age = s.Age]

\* The target row t after the MERGE.
Merged(t, stg) ==
    IF Matches(t, stg) = {} THEN t
    ELSE UpdateRow(t, CHOOSE s \in Matches(t, stg) : TRUE)

\* WHEN NOT MATCHED BY TARGET THEN INSERT: the staged rows no target row joins.
Inserted(tgt, stg) ==
    LET new == {s \in BagToSet(stg) :
                   \A t \in BagToSet(tgt) : ~SqlEq(t.NationalId, s.NationalId)}
    IN  [s \in new |-> CopiesIn(s, stg)]

\* The table Cases after the MERGE statement.
MergeResult(tgt, stg) ==
    LET after == {Merged(t, stg) : t \in BagToSet(tgt)}
        kept  == [u \in after |->
                     SumCopies({t \in BagToSet(tgt) : Merged(t, stg) = u}, tgt)]
    IN  kept (+) Inserted(tgt, stg)

\* The table Cases after DELETE ... WHERE NationalId NOT IN (SELECT NationalId ...).
DeleteResult(tgt, stg) ==
    LET ids  == {s.NationalId : s \in BagToSet(stg)}
        kept == {t \in BagToSet(tgt) : ~SqlNotIn(t.NationalId, ids)}
    IN  [t \in kept |-> CopiesIn(t, tgt)]

-----------------------------------------------------------------------------
(* State *)

NoTrans == [state |-> "none", rows |-> EmptyBag]

Init ==
    /\ source = [r \in Runs |-> EmptyBag]
    /\ df = [r \in Runs |-> EmptyBag]
    /\ staging = EmptyBag
    /\ target = EmptyBag
    /\ trans = [r \in Runs |-> NoTrans]
    /\ pc = [r \in Runs |-> "START"]
    /\ step = [r \in Runs |-> "idle"]
    /\ err = [r \in Runs |-> "none"]
    /\ before = [r \in Runs |-> EmptyBag]
    /\ lastDf = EmptyBag

\* Run r's transaction holds the rows it wrote until it commits or rolls back.
Holding(r) == trans[r].state = "active" /\ step[r] \in {"delete", "commit"}

\* No other run's transaction holds rows of Cases.
Unlocked(r) == \A q \in Runs \ {r} : ~Holding(q)

-----------------------------------------------------------------------------
(* run_etl() and load(), one action per step *)

\* load() without its df.empty check.
ShouldLoadAlways(frame) == TRUE

\* if df.empty: return (load, lines 95-97): load goes on only with records.
ShouldLoad(frame) == ~IsEmpty(frame)

\* run_etl() without its df.empty check.
AfterExtractAlwaysLoad(frame) == "LOADING"

\* if df.empty: return, else load(df, 'Cases') (run_etl, lines 185-190).
AfterExtract(frame) == IF IsEmpty(frame) THEN "STOP" ELSE "LOADING"

\* run_etl() up to the call of extract().
RunEtlStart(r) ==
    /\ pc[r] = "START"
    /\ pc' = [pc EXCEPT ![r] = "EXTRACTING"]
    /\ UNCHANGED <<source, df, staging, target, trans, step, err, before, lastDf>>

\* extract() reads the source table; run_etl() stops or calls load().
ExtractOk(r) ==
    /\ pc[r] = "EXTRACTING"
    /\ \E s \in SourceTables :
          /\ source' = [source EXCEPT ![r] = s]
          /\ df' = [df EXCEPT ![r] = Query(s)]
    /\ pc' = [pc EXCEPT ![r] = AfterExtract(df'[r])]
    /\ step' = [step EXCEPT ![r] = IF pc'[r] = "LOADING" THEN "entry" ELSE "idle"]
    /\ UNCHANGED <<staging, target, trans, err, before, lastDf>>

\* An extract() that lets the exception of the query reach run_etl().
ExtractFailRaises(r) ==
    /\ pc[r] = "EXTRACTING"
    /\ \E s \in SourceTables : source' = [source EXCEPT ![r] = s]
    /\ df' = [df EXCEPT ![r] = EmptyBag]
    /\ pc' = [pc EXCEPT ![r] = "FAILED"]
    /\ UNCHANGED <<staging, target, trans, step, err, before, lastDf>>

\* extract() fails to connect or to query: it returns pd.DataFrame().
ExtractFail(r) ==
    /\ pc[r] = "EXTRACTING"
    /\ \E s \in SourceTables : source' = [source EXCEPT ![r] = s]
    /\ df' = [df EXCEPT ![r] = EmptyBag]
    /\ pc' = [pc EXCEPT ![r] = AfterExtract(df'[r])]
    /\ step' = [step EXCEPT ![r] = IF pc'[r] = "LOADING" THEN "entry" ELSE "idle"]
    /\ UNCHANGED <<staging, target, trans, err, before, lastDf>>

\* A caller other than run_etl() calls load(df, 'Cases') with records of its own.
CallLoad(r) ==
    /\ pc[r] = "START"
    /\ \E s \in SourceTables : df' = [df EXCEPT ![r] = Query(s)]
    /\ pc' = [pc EXCEPT ![r] = "CALLER"]
    /\ step' = [step EXCEPT ![r] = "entry"]
    /\ UNCHANGED <<source, staging, target, trans, err, before, lastDf>>

\* load() with an empty DataFrame: a warning, and return.
LoadEmpty(r) ==
    /\ step[r] = "entry"
    /\ ~ShouldLoad(df[r])
    /\ step' = [step EXCEPT ![r] = "returned"]
    /\ UNCHANGED <<source, df, staging, target, trans, pc, err, before, lastDf>>

\* to_sql with if_exists='append': the records are added to the staged rows.
StageAppend(r) ==
    /\ step[r] = "entry"
    /\ ShouldLoad(df[r])
    /\ staging' = staging (+) df[r]
    /\ step' = [step EXCEPT ![r] = "begin"]
    /\ UNCHANGED <<source, df, target, trans, pc, err, before, lastDf>>

\* df.to_sql(staging_table, engine, if_exists='replace', index=False)
Stage(r) ==
    /\ step[r] = "entry"
    /\ ShouldLoad(df[r])
    /\ staging' = df[r]
    /\ step' = [step EXCEPT ![r] = "begin"]
    /\ UNCHANGED <<source, df, target, trans, pc, err, before, lastDf>>

\* A load() that logs the failure of to_sql and goes on to the transaction.
StageFailGoesOn(r) ==
    /\ step[r] = "entry"
    /\ ShouldLoad(df[r])
    /\ staging' \in {staging, EmptyBag}
    /\ step' = [step EXCEPT ![r] = "begin"]
    /\ err' = [err EXCEPT ![r] = "stage"]
    /\ UNCHANGED <<source, df, target, trans, pc, before, lastDf>>

\* create_engine or to_sql raises: the staging table is as it was, or was
\* dropped and re-created without its rows.
StageFail(r) ==
    /\ step[r] = "entry"
    /\ ShouldLoad(df[r])
    /\ staging' \in {staging, EmptyBag}
    /\ step' = [step EXCEPT ![r] = "raised"]
    /\ err' = [err EXCEPT ![r] = "stage"]
    /\ UNCHANGED <<source, df, target, trans, pc, before, lastDf>>

\* with engine.connect() as conn: trans = conn.begin()
Begin(r) ==
    /\ step[r] = "begin"
    /\ trans' = [trans EXCEPT ![r] = [state |-> "active", rows |-> target]]
    /\ before' = [before EXCEPT ![r] = target]
    /\ step' = [step EXCEPT ![r] = "merge"]
    /\ UNCHANGED <<source, df, staging, target, pc, err, lastDf>>

\* engine.connect() or conn.begin() raises, outside the inner try.
BeginFail(r) ==
    /\ step[r] = "begin"
    /\ step' = [step EXCEPT ![r] = "raised"]
    /\ err' = [err EXCEPT ![r] = "begin"]
    /\ UNCHANGED <<source, df, staging, target, trans, pc, before, lastDf>>

\* The MERGE statement on a connection in autocommit mode.
MergeAutocommit(r) ==
    /\ step[r] = "merge"
    /\ Unlocked(r)
    /\ ~MergeError(target, staging)
    /\ BagCardinality(MergeResult(target, staging)) <= MaxTarget
    /\ target' = MergeResult(target, staging)
    /\ trans' = [trans EXCEPT ![r].rows = MergeResult(target, staging)]
    /\ step' = [step EXCEPT ![r] = "delete"]
    /\ UNCHANGED <<source, df, staging, pc, err, before, lastDf>>

\* conn.execute(text(merge_sql)) inside the transaction.
Merge(r) ==
    /\ step[r] = "merge"
    /\ Unlocked(r)
    /\ ~MergeError(target, staging)
    /\ BagCardinality(MergeResult(target, staging)) <= MaxTarget
    /\ trans' = [trans EXCEPT ![r].rows = MergeResult(target, staging)]
    /\ step' = [step EXCEPT ![r] = "delete"]
    /\ UNCHANGED <<source, df, staging, target, pc, err, before, lastDf>>

\* The exception handler of the transaction: trans.rollback(), log, raise.
Raise(r, phase) ==
    /\ trans' = [trans EXCEPT ![r] = [state |-> "rolledback", rows |-> EmptyBag]]
    /\ step' = [step EXCEPT ![r] = "raised"]
    /\ err' = [err EXCEPT ![r] = phase]
    /\ UNCHANGED <<source, df, staging, target, pc, before, lastDf>>

\* A load() that answers a failed MERGE by rolling back and staging again.
MergeFailRetries(r) ==
    /\ step[r] = "merge"
    /\ trans' = [trans EXCEPT ![r] = [state |-> "rolledback", rows |-> EmptyBag]]
    /\ step' = [step EXCEPT ![r] = "entry"]
    /\ UNCHANGED <<source, df, staging, target, pc, err, before, lastDf>>

\* The MERGE statement raises.
MergeFail(r) ==
    /\ step[r] = "merge"
    /\ Raise(r, "merge")

\* conn.execute(text(delete_sql)) inside the transaction.
Delete(r) ==
    /\ step[r] = "delete"
    /\ trans' = [trans EXCEPT ![r].rows = DeleteResult(trans[r].rows, staging)]
    /\ step' = [step EXCEPT ![r] = "commit"]
    /\ UNCHANGED <<source, df, staging, target, pc, err, before, lastDf>>

\* A handler that commits what the MERGE wrote before it raises.
DeleteFailCommits(r) ==
    /\ step[r] = "delete"
    /\ target' = trans[r].rows
    /\ trans' = [trans EXCEPT ![r] = [state |-> "rolledback", rows |-> EmptyBag]]
    /\ step' = [step EXCEPT ![r] = "raised"]
    /\ err' = [err EXCEPT ![r] = "delete"]
    /\ UNCHANGED <<source, df, staging, pc, before, lastDf>>

\* The DELETE statement raises.
DeleteFail(r) ==
    /\ step[r] = "delete"
    /\ Raise(r, "delete")

\* trans.commit(), and load() returns.
Commit(r) ==
    /\ step[r] = "commit"
    /\ target' = trans[r].rows
    /\ trans' = [trans EXCEPT ![r] = [state |-> "committed", rows |-> EmptyBag]]
    /\ step' = [step EXCEPT ![r] = "returned"]
    /\ lastDf' = df[r]
    /\ UNCHANGED <<source, df, staging, pc, err, before>>

\* trans.commit() raises.
CommitFail(r) ==
    /\ step[r] = "commit"
    /\ Raise(r, "commit")

\* load() returned: run_etl() logs the duration and returns.
RunEtlDone(r) ==
    /\ pc[r] = "LOADING"
    /\ step[r] = "returned"
    /\ pc' = [pc EXCEPT ![r] = "DONE"]
    /\ UNCHANGED <<source, df, staging, target, trans, step, err, before, lastDf>>

\* A run_etl() that logs the failure of load() and reports success.
RunEtlSwallows(r) ==
    /\ pc[r] = "LOADING"
    /\ step[r] = "raised"
    /\ pc' = [pc EXCEPT ![r] = "DONE"]
    /\ UNCHANGED <<source, df, staging, target, trans, step, err, before, lastDf>>

\* load() raised: run_etl() logs the failure and raises it again.
RunEtlFailed(r) ==
    /\ pc[r] = "LOADING"
    /\ step[r] = "raised"
    /\ pc' = [pc EXCEPT ![r] = "FAILED"]
    /\ UNCHANGED <<source, df, staging, target, trans, step, err, before, lastDf>>

\* The call is over.
Ended(r) ==
    \/ pc[r] \in {"STOP", "DONE", "FAILED"}
    \/ pc[r] = "CALLER" /\ step[r] \in {"returned", "raised"}

\* The process ends; the script can be run again.
Exit(r) ==
    /\ Ended(r)
    /\ source' = [source EXCEPT ![r] = EmptyBag]
    /\ df' = [df EXCEPT ![r] = EmptyBag]
    /\ trans' = [trans EXCEPT ![r] = NoTrans]
    /\ pc' = [pc EXCEPT ![r] = "START"]
    /\ step' = [step EXCEPT ![r] = "idle"]
    /\ err' = [err EXCEPT ![r] = "none"]
    /\ before' = [before EXCEPT ![r] = EmptyBag]
    /\ UNCHANGED <<staging, target, lastDf>>

\* The runs are serialized: a run starts when no other run is under way.
Serialized(r) == \A q \in Runs \ {r} : pc[q] = "START"

\* One process at a time runs the script, again and again.
Next ==
    \/ \E r \in Runs : Serialized(r) /\ RunEtlStart(r)
    \/ \E r \in Runs : Serialized(r) /\ ExtractOk(r)
    \/ \E r \in Runs : Serialized(r) /\ ExtractFail(r)
    \/ \E r \in Runs : Serialized(r) /\ CallLoad(r)
    \/ \E r \in Runs : Serialized(r) /\ LoadEmpty(r)
    \/ \E r \in Runs : Serialized(r) /\ Stage(r)
    \/ \E r \in Runs : Serialized(r) /\ StageFail(r)
    \/ \E r \in Runs : Serialized(r) /\ Begin(r)
    \/ \E r \in Runs : Serialized(r) /\ BeginFail(r)
    \/ \E r \in Runs : Serialized(r) /\ Merge(r)
    \/ \E r \in Runs : Serialized(r) /\ MergeFail(r)
    \/ \E r \in Runs : Serialized(r) /\ Delete(r)
    \/ \E r \in Runs : Serialized(r) /\ DeleteFail(r)
    \/ \E r \in Runs : Serialized(r) /\ Commit(r)
    \/ \E r \in Runs : Serialized(r) /\ CommitFail(r)
    \/ \E r \in Runs : Serialized(r) /\ RunEtlDone(r)
    \/ \E r \in Runs : Serialized(r) /\ RunEtlFailed(r)
    \/ \E r \in Runs : Serialized(r) /\ Exit(r)

Spec == Init /\ [][Next]_vars

\* Two processes run the script once each, at the same time: nothing in the
\* script keeps a second process from starting.  The steps are those of runs
\* in which no statement but the MERGE raises.
NextConcurrent ==
    \/ \E r \in Runs : RunEtlStart(r)
    \/ \E r \in Runs : ExtractOk(r)
    \/ \E r \in Runs : Stage(r)
    \/ \E r \in Runs : Begin(r)
    \/ \E r \in Runs : Merge(r)
    \/ \E r \in Runs : MergeFail(r)
    \/ \E r \in Runs : Delete(r)
    \/ \E r \in Runs : Commit(r)
    \/ \E r \in Runs : RunEtlDone(r)
    \/ \E r \in Runs : RunEtlFailed(r)

SpecConcurrent == Init /\ [][NextConcurrent]_vars

-----------------------------------------------------------------------------
(* Properties *)

\* The NationalId values of a table.
Ids(table) == {t.NationalId : t \in BagToSet(table)}

\* The CaseNumber values of the source table, which the query reads as NationalId.
SourceIds(table) == {row.CaseNumber : row \in BagToSet(table)}

\* The rows of a table with NationalId id.
RowsOf(table, id) == {t \in BagToSet(table) : t.NationalId = id}

\* Run r's load() committed its transaction.
Synced(r) == trans[r].state = "committed"

\* The table after the upsert and the delete-missing of one sync of records recs.
Reconciled(tgt, recs) == DeleteResult(MergeResult(tgt, recs), recs)

\* C1 (mirror invariant): after a committed sync the NationalId values of the
\* target table are exactly those of the records extracted by that run.
C1_Mirror ==
    \A r \in Runs : Synced(r) => Ids(target) = Ids(df[r])

\* C2 (atomicity on failure): when the MERGE or the DELETE raised, the
\* transaction is rolled back, the target table is as it was when the
\* reconciliation began, and load() has raised to its caller.
C2_Atomicity ==
    \A r \in Runs :
        err[r] \in {"merge", "delete"} =>
            /\ trans[r].state = "rolledback"
            /\ target = before[r]
            /\ step[r] = "raised"
            /\ pc[r] \in {"LOADING", "FAILED", "CALLER"}

\* The DELETE raised after a MERGE that had changed rows, and the target table
\* is back to what it was.
C2_Witness ==
    \E r \in Runs :
        /\ err[r] = "delete"
        /\ MergeResult(before[r], staging) # before[r]
        /\ target = before[r]

\* C3 (empty-extraction safety): every step of a run whose extraction, or whose
\* caller's record set, is empty leaves the target and the staging table as they
\* are, begins no transaction and raises nothing; run_etl() ends in STOP and a
\* direct load() returns.
C3_EmptyExtractionSafety ==
    [][\A r \in Runs :
          (/\ pc[r] # "START"
           /\ pc'[r] # "START"
           /\ <<pc'[r], step'[r]>> # <<pc[r], step[r]>>
           /\ IsEmpty(df'[r]))
          => /\ target' = target
             /\ staging' = staging
             /\ trans'[r] = NoTrans
             /\ err'[r] = "none"
             /\ pc'[r] \in {"STOP", "CALLER"}
             /\ step'[r] \in {"idle", "returned"}]_vars

\* run_etl() stopped on an empty extraction, or load() returned on an empty
\* record set, with rows in the target and in the staging table.
C3_Witness ==
    /\ ~IsEmpty(target)
    /\ ~IsEmpty(staging)
    /\ \E r \in Runs :
          \/ pc[r] = "STOP"
          \/ pc[r] = "CALLER" /\ step[r] = "returned" /\ IsEmpty(df[r])

\* C4 (same snapshot): whatever the interleaving of two runs, a run's DELETE
\* reads the staged records its MERGE read, so it removes no row whose
\* NationalId is in the run's own records.
C4_SameSnapshot ==
    [][\A r \in Runs :
          (step[r] = "delete" /\ step'[r] = "commit") =>
              \A rec \in BagToSet(df[r]) :
                  RowsOf(trans[r].rows, rec.NationalId) # {}
                      => RowsOf(trans'[r].rows, rec.NationalId) # {}]_vars

\* C5 (no partial sync observable): once a run's transaction has begun, the
\* committed target table is what it was before, or, after the commit, the
\* result of the upsert and the delete-missing together.
C5_NoPartialSync ==
    \A r \in Runs :
        trans[r].state # "none" =>
            \/ target = before[r]
            \/ Synced(r) /\ target = Reconciled(before[r], df[r])

\* A committed sync whose delete-missing removed rows the upsert had left.
C5_Witness ==
    \E r \in Runs :
        /\ Synced(r)
        /\ target = Reconciled(before[r], df[r])
        /\ target # MergeResult(before[r], df[r])
        /\ MergeResult(before[r], df[r]) # before[r]

\* C6 (upsert by key): after a committed sync, a staged record whose key the
\* target held is the one row with that key, and no row with that key was
\* added; a staged record whose key the target did not hold is there exactly
\* once, the only row with its key.
C6_UpsertByKey ==
    \A r \in Runs :
        Synced(r) =>
            \A rec \in BagToSet(df[r]) :
                LET had == RowsOf(before[r], rec.NationalId)
                    now == RowsOf(target, rec.NationalId)
                IN  /\ now = {rec}
                    /\ IF had # {}
                       THEN SumCopies(now, target) = SumCopies(had, before[r])
                       ELSE CopiesIn(rec, target) = 1

\* C7 (key uniqueness): after a committed sync no two rows of the target table
\* have the same NationalId value.
C7_KeyUniqueness ==
    \A r \in Runs :
        Synced(r) =>
            \A id \in Ids(target) \ {NULL} :
                SumCopies(RowsOf(target, id), target) <= 1

\* C8 (idempotence): a sync that commits with the record set of the latest
\* committed sync leaves the target table as that sync left it.
C8_Idempotence ==
    [][\A r \in Runs :
          (step[r] = "commit" /\ trans'[r].state = "committed" /\ df[r] = lastDf)
          => target' = target]_vars

\* C9 (no silent divergence): when run_etl() has ended without raising, every
\* NationalId of the target table is one the source held at the extraction.
C9_NoSilentDivergence ==
    \A r \in Runs :
        pc[r] \in {"STOP", "DONE"} => Ids(target) \subseteq SourceIds(source[r])

\* C10 (orchestrator state machine): run_etl() moves START -> EXTRACTING ->
\* STOP on an empty extraction, or LOADING on records; LOADING -> DONE when
\* load() returned after its commit, LOADING -> FAILED when load() raised.
C10_StateMachine ==
    [][\A r \in Runs :
          (pc'[r] # pc[r] /\ pc'[r] # "CALLER") =>
              \/ pc[r] = "START" /\ pc'[r] = "EXTRACTING"
              \/ pc[r] = "EXTRACTING" /\ pc'[r] = "STOP" /\ IsEmpty(df'[r])
              \/ pc[r] = "EXTRACTING" /\ pc'[r] = "LOADING" /\ ~IsEmpty(df'[r])
              \/ pc[r] = "LOADING" /\ pc'[r] = "DONE"
                   /\ step[r] = "returned" /\ Synced(r)
              \/ pc[r] = "LOADING" /\ pc'[r] = "FAILED" /\ step[r] = "raised"
              \/ Ended(r) /\ pc'[r] = "START"]_vars

\* A run of run_etl() that failed in load(), here at the commit.
C10_Witness ==
    \E r \in Runs : pc[r] = "FAILED" /\ err[r] = "commit"

\* C11 (extraction failure degrades to a no-op): when extract() fails, it
\* returns an empty DataFrame; run_etl() goes to STOP without entering load(),
\* leaves the target and the staging table as they are, and from STOP only ends.
C11_ExtractionFailureNoOp ==
    [][\A r \in Runs :
          /\ (/\ pc[r] = "EXTRACTING"
              /\ pc'[r] # "EXTRACTING"
              /\ ~IsEmpty(source'[r])
              /\ IsEmpty(df'[r]))
             => /\ pc'[r] = "STOP"
                /\ step'[r] = "idle"
                /\ err'[r] = "none"
                /\ trans'[r] = NoTrans
                /\ target' = target
                /\ staging' = staging
          /\ (pc[r] = "STOP" /\ pc'[r] # "STOP")
             => pc'[r] = "START" /\ target' = target /\ staging' = staging]_vars

\* run_etl() stopped after an extraction that failed on a source table with
\* rows, and the target table still holds its rows.
C11_Witness ==
    \E r \in Runs :
        /\ pc[r] = "STOP"
        /\ ~IsEmpty(source[r])
        /\ IsEmpty(df[r])
        /\ ~IsEmpty(target)

\* C12 (load failure is fatal): a run whose load() raised, in staging, begin,
\* MERGE, DELETE or commit, is never DONE and can only go on to FAILED;
\* run_etl() is DONE only after load() returned from its commit, and STOP only
\* on an empty extraction.
C12_LoadFailureFatal ==
    \A r \in Runs :
        /\ err[r] # "none" =>
              /\ step[r] = "raised"
              /\ pc[r] \in {"LOADING", "FAILED", "CALLER"}
        /\ (pc[r] = "LOADING" /\ step[r] = "raised") =>
              ENABLED RunEtlFailed(r) /\ ~ENABLED RunEtlDone(r)
        /\ pc[r] = "FAILED" => err[r] # "none" /\ ~IsEmpty(df[r])
        /\ pc[r] = "DONE" =>
              step[r] = "returned" /\ err[r] = "none" /\ Synced(r)
        /\ pc[r] = "STOP" => IsEmpty(df[r]) /\ step[r] = "idle"

\* run_etl() failed because the staging of a non-empty extraction raised.
C12_Witness ==
    \E r \in Runs :
        pc[r] = "FAILED" /\ err[r] = "stage" /\ ~IsEmpty(df[r])

\* C13 (staging failure is fatal and harmless to the target): from the step in
\* which the staging raised to the end of the run, load() has raised, the run
\* has no transaction, executes neither statement, and the target table stays
\* as it is.
C13_StagingFailure ==
    [][\A r \in Runs :
          err'[r] = "stage" =>
              /\ step'[r] = "raised"
              /\ trans'[r] = NoTrans
              /\ before'[r] = EmptyBag
              /\ target' = target
              /\ lastDf' = lastDf
              /\ pc'[r] \in {"LOADING", "FAILED", "CALLER"}]_vars

\* The staging raised and left the staging table without rows, while the
\* target table holds rows.
C13_Witness ==
    \E r \in Runs :
        /\ err[r] = "stage"
        /\ IsEmpty(staging)
        /\ ~IsEmpty(target)

\* C14 (staging is replaced entirely): the stage step leaves exactly the
\* records of its run in the staging table; they are still its contents when
\* the sync has committed; and the contents change only in the stage step of a
\* run.
C14_StagingReplaced ==
    [][\A r \in Runs :
          /\ (step[r] = "entry" /\ step'[r] = "begin") => staging' = df[r]
          /\ trans'[r].state = "committed" => staging' = df'[r]
          /\ staging' # staging =>
                \E q \in Runs : step[q] = "entry" /\ step'[q] \in {"begin", "raised"}]_vars

\* A run has staged its records over the different records an earlier sync
\* had staged.
C14_Witness ==
    \E r \in Runs :
        /\ step[r] = "begin"
        /\ staging = df[r]
        /\ ~IsEmpty(lastDf)
        /\ lastDf # df[r]
        /\ \E old \in BagToSet(lastDf) : ~BagIn(old, df[r])

\* The Gender values of a table of records.
Genders(table) == {t.Gender : t \in BagToSet(table)}

\* The labels of the query, and the absent value.
GenderValues == {Some(FemaleLabel), Some(MaleLabel), NULL}

\* C15 (gender mapping): the records extract() returned hold, for every source
\* row, a record with the female label when the row's code is 20, the male
\* label when it is 10 and no Gender otherwise; no value but the two labels
\* and NULL is a Gender in a DataFrame, in the staging or in the target table.
C15_GenderMapping ==
    /\ \A r \in Runs :
          (pc[r] \in {"LOADING", "DONE", "FAILED"} /\ ~IsEmpty(df[r])) =>
              /\ BagCardinality(df[r]) = BagCardinality(source[r])
              /\ \A row \in BagToSet(source[r]) :
                    \E rec \in BagToSet(df[r]) :
                        /\ rec.NationalId = row.CaseNumber
                        /\ rec.Name = row.Name
                        /\ row.Gender = Some(20) => rec.Gender = Some(FemaleLabel)
                        /\ row.Gender = Some(10) => rec.Gender = Some(MaleLabel)
                        /\ row.Gender \notin {Some(20), Some(10)} => rec.Gender = NULL
    /\ \A r \in Runs : Genders(df[r]) \subseteq GenderValues
    /\ Genders(staging) \subseteq GenderValues
    /\ Genders(target) \subseteq GenderValues
    /\ \A r \in Runs : Genders(trans[r].rows) \subseteq GenderValues

\* A sync of a source row with code 20 and a source row with an unmapped code:
\* the target holds a row with the female label and a row without Gender.
C15_Witness ==
    \E r \in Runs :
        /\ pc[r] = "DONE"
        /\ \E row \in BagToSet(source[r]) : row.Gender = Some(20)
        /\ \E row \in BagToSet(source[r]) : row.Gender = Some(30)
        /\ Some(FemaleLabel) \in Genders(target)
        /\ NULL \in Genders(target)

\* The steps of load() in their order.
PhaseOrder ==
    { <<"idle", "entry">>, <<"entry", "begin">>, <<"begin", "merge">>,
      <<"merge", "delete">>, <<"delete", "commit">>, <<"commit", "returned">> }

\* C16 (phase ordering without retry): after the extraction, load() moves
\* through stage, begin, MERGE, DELETE and commit in this order, one phase at a
\* time and never back; a phase that raises ends load(), which runs no phase
\* after it; a run extracts once.
C16_PhaseOrder ==
    [][\A r \in Runs :
          /\ step'[r] # step[r] =>
                \/ <<step[r], step'[r]>> \in PhaseOrder
                \/ step[r] = "entry" /\ step'[r] = "returned" /\ IsEmpty(df[r])
                \/ /\ step[r] \in {"entry", "begin", "merge", "delete", "commit"}
                   /\ step'[r] = "raised"
                   /\ err'[r] # "none"
                \/ Ended(r) /\ step'[r] = "idle" /\ pc'[r] = "START"
          /\ (step[r] = "idle" /\ step'[r] = "entry") =>
                pc[r] \in {"START", "EXTRACTING"} /\ pc'[r] \in {"LOADING", "CALLER"}
          /\ (step[r] = "raised" /\ pc'[r] # "START") =>
                /\ step'[r] = "raised"
                /\ target' = target
                /\ staging' = staging
                /\ trans'[r] = trans[r]
          /\ pc'[r] = "EXTRACTING" => pc[r] \in {"START", "EXTRACTING"}
          /\ df'[r] # df[r] => pc[r] \in {"START", "EXTRACTING"} \/ pc'[r] = "START"]_vars

\* A run of run_etl() that went through every phase and changed the target.
C16_Witness ==
    \E r \in Runs :
        /\ pc[r] = "DONE"
        /\ step[r] = "returned"
        /\ target # before[r]

\* The number of rows of a table whose NationalId is id.
CountOf(table, id) == SumCopies(RowsOf(table, id), table)

\* C17 (frame of the two reconciliation steps): the MERGE step removes no row
\* and leaves every row whose NationalId is absent from the staging as it was;
\* the DELETE step removes exactly the rows whose NationalId is absent from the
\* staging and leaves every row it keeps as it was.
C17_Frame ==
    [][\A r \in Runs :
          /\ (step[r] = "merge" /\ step'[r] = "delete") =>
                /\ BagCardinality(trans'[r].rows) >= BagCardinality(target)
                /\ \A id \in Ids(target) :
                      CountOf(trans'[r].rows, id) >= CountOf(target, id)
                /\ \A t \in BagToSet(target) :
                      t.NationalId \notin Ids(staging) =>
                          CopiesIn(t, trans'[r].rows) = CopiesIn(t, target)
          /\ (step[r] = "delete" /\ step'[r] = "commit") =>
                /\ \A t \in BagToSet(trans[r].rows) :
                      CopiesIn(t, trans'[r].rows) =
                          IF t.NationalId \in Ids(staging)
                          THEN CopiesIn(t, trans[r].rows)
                          ELSE 0
                /\ BagToSet(trans'[r].rows) \subseteq BagToSet(trans[r].rows)]_vars

\* C18 (null-key behaviour): after a commit of records of which one has no
\* NationalId, the target is what the MERGE made of it, the DELETE having
\* removed no row: every row the records did not match is still there, the
\* stale ones included, and the target has one more row without NationalId for
\* each such record.
C18_NullKey ==
    \A r \in Runs :
        (Synced(r) /\ NULL \in Ids(df[r])) =>
            /\ target = MergeResult(before[r], df[r])
            /\ \A t \in BagToSet(before[r]) :
                  t.NationalId \notin Ids(df[r]) \ {NULL} =>
                      CopiesIn(t, target) >= CopiesIn(t, before[r])
            /\ Ids(before[r]) \subseteq Ids(target)
            /\ CountOf(target, NULL) = CountOf(before[r], NULL) + CountOf(df[r], NULL)
            /\ BagCardinality(target) >= BagCardinality(before[r]) + CountOf(df[r], NULL)

\* A commit of a record without NationalId over a target that held a stale row
\* and a row without NationalId: both are still there.
C18_Witness ==
    \E r \in Runs :
        /\ Synced(r)
        /\ NULL \in Ids(df[r])
        /\ NULL \in Ids(before[r])
        /\ \E id \in Ids(before[r]) \ Ids(df[r]) : id \in Ids(target)
        /\ CountOf(target, NULL) > CountOf(before[r], NULL)

====
